---- MODULE Spec2Model ----
(***************************************************************************)
(* Model of the print subsystem of dynamic-print-app:                      *)
(*   PrintService          (core/services, template registry + dialogs)    *)
(*   PrintPreviewComponent (the render host shown inside a CDK dialog)     *)
(*                                                                         *)
(* JavaScript values are modelled as follows.  Scalars (strings, booleans, *)
(* numbers, undefined, null) are TLA+ strings holding the literal as it is *)
(* written in the source ("true", "1", "undefined").  Objects are          *)
(* functions from property names to values; a property that is absent is   *)
(* outside the DOMAIN, which is different from a property that is present  *)
(* with the value "undefined".  A Map is the sequence of its entries in    *)
(* insertion order.  A string built by concatenation is the sequence of    *)
(* its pieces.                                                             *)
(***************************************************************************)
EXTENDS Integers, Sequences, FiniteSets, TLC

VARIABLES
    templateRegistry,   \* Map<string, PrintTemplate>, entries in insertion order
    activeDialogRef,    \* 0 (null) or the index in dialogs of the referenced DialogRef
    dialogs,            \* every DialogRef opened so far, with its component and promise
    directTimers,       \* pending setTimeout(..., 100) callbacks of printDirect
    printTimers,        \* pending setTimeout(..., 250) callbacks of print
    windowPrintCalls,   \* number of window.print() invocations so far
    last,               \* the most recent call on the service and how it ended
    invoicePrint        \* an InvoicePrintComponent instance and what was read from it

vars == <<templateRegistry, activeDialogRef, dialogs, directTimers, printTimers,
          windowPrintCalls, last, invoicePrint>>

----------------------------------------------------------------------------
(* Bounds of the exploration *)

MaxDialogs == 2
MaxPrints == 1

----------------------------------------------------------------------------
(* JavaScript values *)

Undefined == "undefined"
NullRef == 0
EmptyObject == [k \in {} |-> Undefined]

BoolStr(b) == IF b THEN "true" ELSE "false"

\* { ...target, ...source }
ObjectSpread(target, source) ==
    [k \in (DOMAIN target) \cup (DOMAIN source) |->
        IF k \in DOMAIN source THEN source[k] ELSE target[k]]

RECURSIVE Join(_)
\* Array.prototype.join(', ')
Join(keys) ==
    IF Len(keys) = 0 THEN <<>>
    ELSE IF Len(keys) = 1 THEN <<keys[1]>>
    ELSE <<keys[1], ", ">> \o Join(Tail(keys))

----------------------------------------------------------------------------
(* Inputs *)

Keys == {"invoice", "table", "nonexistent-template"}

Registrations ==
    { [key |-> "invoice", component |-> "InvoicePrintComponent",
       description |-> "Professional invoice template"],
      [key |-> "invoice", component |-> "ReportPrintComponent",
       description |-> Undefined],
      [key |-> "table", component |-> "TablePrintComponent",
       description |-> "Data table template"],
      [key |-> "table", component |-> Undefined,
       description |-> Undefined] }

PrintConfigs ==
    { [templateKey |-> "invoice", data |-> "invoiceData",
       hasOptions |-> FALSE, options |-> EmptyObject],
      [templateKey |-> "table", data |-> "tableData",
       hasOptions |-> TRUE,
       options |-> [pageSize |-> "Legal", title |-> Undefined, showHeader |-> "false",
                    headerData |-> "callerHeaderData"]],
      [templateKey |-> "nonexistent-template", data |-> "{}",
       hasOptions |-> FALSE, options |-> EmptyObject] }

----------------------------------------------------------------------------
(* The template registry: Map<string, PrintTemplate> *)

MapHas(reg, key) == \E i \in 1..Len(reg) : reg[i].key = key

MapIndex(reg, key) == CHOOSE i \in 1..Len(reg) : reg[i].key = key

\* what Map.get returns for a key that is absent
UndefinedTemplate ==
    [key |-> Undefined, component |-> Undefined, description |-> Undefined]

MapGet(reg, key) ==
    IF MapHas(reg, key) THEN reg[MapIndex(reg, key)] ELSE UndefinedTemplate

\* Map.set: an existing key keeps its position, a new key goes to the end
MapSet(reg, key, value) ==
    IF MapHas(reg, key)
    THEN [reg EXCEPT ![MapIndex(reg, key)] = value]
    ELSE Append(reg, value)

MapDeleteAll(reg, key) == [returned |-> MapHas(reg, key), map |-> <<>>]

\* Map.delete: whether the key was present, and the map without it
MapDelete(reg, key) ==
    [returned |-> MapHas(reg, key),
     map |-> SelectSeq(reg, LAMBDA e : e.key # key)]

MapClearKeepFirst(reg) == IF reg = <<>> THEN reg ELSE <<reg[1]>>

\* Map.clear
MapClear(reg) == <<>>

MapKeys(reg) == [i \in 1..Len(reg) |-> reg[i].key]

RegisterEntryKeepFirst(reg, key, component, description) ==
    IF MapHas(reg, key) THEN reg
    ELSE Append(reg, [key |-> key, component |-> component,
                      description |-> description])

\* the registry after registerTemplate(key, component, description)
RegisterEntry(reg, key, component, description) ==
    MapSet(reg, key, [key |-> key, component |-> component,
                      description |-> description])

getTemplate(reg, key) == MapGet(reg, key)

getRegisteredTemplates(reg) == MapKeys(reg)

getAllTemplates(reg) == reg

hasTemplate(reg, key) == MapHas(reg, key)

getStats(reg) == [count |-> Len(reg), templates |-> getRegisteredTemplates(reg)]

----------------------------------------------------------------------------
(* Options *)

defaults ==
    [orientation |-> "portrait", pageSize |-> "A4", showHeader |-> "true",
     showFooter |-> "true", showPageNumbers |-> "false", title |-> "Document",
     rtl |-> "false", copies |-> "1"]

mergeDefaultOptionsReversed(hasOptions, options) ==
    ObjectSpread(IF hasOptions THEN options ELSE EmptyObject, defaults)

mergeDefaultOptions(hasOptions, options) ==
    ObjectSpread(defaults, IF hasOptions THEN options ELSE EmptyObject)

----------------------------------------------------------------------------
(* Errors *)

PreviewNotFoundMessageNoList(key, reg) ==
    <<"Print template '", key, "' not found. ", "Available templates: ", "none">>

PreviewNotFoundMessage(key, reg) ==
    LET availableTemplates == Join(getRegisteredTemplates(reg))
    IN  <<"Print template '", key, "' not found. ", "Available templates: ">>
        \o (IF availableTemplates = <<>> THEN <<"none">> ELSE availableTemplates)

PrintDirectNotFoundMessage(key, reg) ==
    <<"Print template '", key, "' not found">>

NoError == <<>>

\* a finished call: its name, its templateKey argument, whether it returned or
\* threw, the value returned, the message of the Error thrown, the dialog whose
\* promise it returned or that it closed, and what it wrote with console.warn
Called(op, key, outcome, ret, err, dialog, warned) ==
    [op |-> op, key |-> key, outcome |-> outcome, ret |-> ret, err |-> err,
     dialog |-> dialog, warned |-> warned]

----------------------------------------------------------------------------
(* The CDK dialog and the promise of preview                                *)
(*                                                                          *)
(* A DialogRef of @angular/cdk/dialog emits on closed from inside close():  *)
(* the subscriber of preview runs before close() returns.  close() on a ref *)
(* that is already closed does nothing.                                     *)

\* the service fields that a dialog operation reads and writes
Service(ref, ds) == [activeDialogRef |-> ref, dialogs |-> ds]

ClosedSubscriberNoResolve(svc, id) ==
    [svc EXCEPT !.activeDialogRef = NullRef]

ClosedSubscriberRejectsUnloaded(svc, id) ==
    [svc EXCEPT !.activeDialogRef = NullRef,
                !.dialogs[id].resolveCalls = IF svc.dialogs[id].isLoading THEN @ ELSE @ + 1,
                !.dialogs[id].promise =
                    IF svc.dialogs[id].isLoading THEN "rejected" ELSE "resolved",
                !.dialogs[id].value =
                    IF svc.dialogs[id].isLoading THEN "Error" ELSE Undefined]

ClosedSubscriberKeepsRef(svc, id) ==
    [svc EXCEPT !.dialogs[id].resolveCalls = @ + 1,
                !.dialogs[id].promise = "resolved",
                !.dialogs[id].value = Undefined]

\* the subscriber of closed installed by preview:
\* this.activeDialogRef = null; resolve()
ClosedSubscriber(svc, id) ==
    [svc EXCEPT !.activeDialogRef = NullRef,
                !.dialogs[id].resolveCalls = @ + 1,
                !.dialogs[id].promise = "resolved",
                !.dialogs[id].value = Undefined]

\* DialogRef.close()
DialogRefClose(svc, id) ==
    IF svc.dialogs[id].closed
    THEN svc
    ELSE ClosedSubscriber(
             [svc EXCEPT !.dialogs[id].closed = TRUE,
                         !.dialogs[id].closeCalls = @ + 1], id)

KeepExistingDialog(svc) == svc

\* "Close any existing dialog" of preview
CloseExistingDialog(svc) ==
    IF svc.activeDialogRef # NullRef
    THEN DialogRefClose(svc, svc.activeDialogRef)
    ELSE svc

NewSettledDialog(previewData, config) ==
    [config |-> config, previewData |-> previewData,
     closed |-> FALSE, closeCalls |-> 0,
     promise |-> "resolved", value |-> Undefined, resolveCalls |-> 1,
     viewInit |-> FALSE, loadTimer |-> FALSE,
     isLoading |-> TRUE, error |-> "null", caught |-> "none",
     instance |-> [created |-> FALSE, component |-> Undefined,
                   data |-> Undefined, options |-> EmptyObject]]

\* Dialog.open(PrintPreviewComponent, {data: previewData, ...}) and the promise
\* that preview returns for it
NewDialog(previewData, config) ==
    [config |-> config, previewData |-> previewData,
     closed |-> FALSE, closeCalls |-> 0,
     promise |-> "pending", value |-> "unsettled", resolveCalls |-> 0,
     viewInit |-> FALSE, loadTimer |-> FALSE,
     isLoading |-> TRUE, error |-> "null", caught |-> "none",
     instance |-> [created |-> FALSE, component |-> Undefined,
                   data |-> Undefined, options |-> EmptyObject]]

OpenDialog(svc, previewData, config) ==
    [svc EXCEPT !.dialogs = Append(@, NewDialog(previewData, config)),
                !.activeDialogRef = Len(svc.dialogs) + 1]

PreviewData(template, config) ==
    [templateComponent |-> template.component,
     data |-> config.data,
     options |-> mergeDefaultOptions(config.hasOptions, config.options)]

PreviewFoundOpenFirst(svc, template, config) ==
    LET opened == OpenDialog(svc, PreviewData(template, config), config) IN
    IF svc.activeDialogRef # NullRef
    THEN DialogRefClose(opened, svc.activeDialogRef)
    ELSE opened

\* the service after preview(config) when the template is found
PreviewFound(svc, template, config) ==
    OpenDialog(CloseExistingDialog(svc), PreviewData(template, config), config)

ForgetActiveDialog(svc) == [svc EXCEPT !.activeDialogRef = NullRef]

ClosePreviewRecloses(svc) ==
    IF svc.activeDialogRef # NullRef
    THEN [DialogRefClose(svc, svc.activeDialogRef) EXCEPT !.activeDialogRef = NullRef]
    ELSE IF svc.dialogs # <<>>
         THEN [svc EXCEPT !.dialogs[Len(svc.dialogs)].closeCalls = @ + 1]
         ELSE svc

\* the service after closePreview()
ClosePreviewService(svc) ==
    IF svc.activeDialogRef # NullRef
    THEN [DialogRefClose(svc, svc.activeDialogRef) EXCEPT !.activeDialogRef = NullRef]
    ELSE svc

\* registerDefaultTemplates(printService)()
registerDefaultTemplates(reg) ==
    RegisterEntry(
        RegisterEntry(
            RegisterEntry(reg, "invoice", "InvoicePrintComponent",
                          "Professional invoice template"),
            "report", "ReportPrintComponent", "Multi-section report template"),
        "table", "TablePrintComponent", "Data table template")

----------------------------------------------------------------------------
(* State *)

\* no template component has been created outside a preview
NoComponent == [bound |-> "none"]

Init ==
    /\ templateRegistry = <<>>
    /\ activeDialogRef = NullRef
    /\ dialogs = <<>>
    /\ directTimers = 0
    /\ printTimers = 0
    /\ windowPrintCalls = 0
    /\ last = Called("new", Undefined, "returned", "void", NoError, 0, FALSE)
    /\ invoicePrint = NoComponent

svcNow == Service(activeDialogRef, dialogs)

PrintsInFlight == directTimers + printTimers + windowPrintCalls

----------------------------------------------------------------------------
(* PrintService *)

registerTemplate(key, component, description) ==
    /\ templateRegistry' = RegisterEntry(templateRegistry, key, component, description)
    /\ last' = Called("registerTemplate", key, "returned", "void", NoError, 0,
                      MapHas(templateRegistry, key))
    /\ UNCHANGED <<activeDialogRef, dialogs, directTimers, printTimers, windowPrintCalls,
                   invoicePrint>>

unregisterTemplateClosingDialog(key) ==
    /\ templateRegistry' = MapDelete(templateRegistry, key).map
    /\ last' = Called("unregisterTemplate", key, "returned",
                      BoolStr(MapDelete(templateRegistry, key).returned), NoError, 0, FALSE)
    /\ LET svc == IF activeDialogRef # NullRef
                     /\ dialogs[activeDialogRef].config.templateKey = key
                  THEN DialogRefClose(svcNow, activeDialogRef)
                  ELSE svcNow
       IN /\ activeDialogRef' = svc.activeDialogRef
          /\ dialogs' = svc.dialogs
    /\ UNCHANGED <<directTimers, printTimers, windowPrintCalls, invoicePrint>>

unregisterTemplate(key) ==
    /\ templateRegistry' = MapDelete(templateRegistry, key).map
    /\ last' = Called("unregisterTemplate", key, "returned",
                      BoolStr(MapDelete(templateRegistry, key).returned), NoError, 0, FALSE)
    /\ UNCHANGED <<activeDialogRef, dialogs, directTimers, printTimers, windowPrintCalls,
                   invoicePrint>>

clearAllTemplates ==
    /\ templateRegistry' = MapClear(templateRegistry)
    /\ last' = Called("clearAllTemplates", Undefined, "returned", "void", NoError, 0, FALSE)
    /\ UNCHANGED <<activeDialogRef, dialogs, directTimers, printTimers, windowPrintCalls,
                   invoicePrint>>

previewClosingFirst(config) ==
    LET template == getTemplate(templateRegistry, config.templateKey) IN
    IF template = UndefinedTemplate
    THEN /\ last' = Called("preview", config.templateKey, "threw", Undefined,
                           PreviewNotFoundMessage(config.templateKey, templateRegistry), 0, FALSE)
         /\ activeDialogRef' = CloseExistingDialog(svcNow).activeDialogRef
         /\ dialogs' = CloseExistingDialog(svcNow).dialogs
         /\ UNCHANGED <<templateRegistry, directTimers, printTimers, windowPrintCalls,
                        invoicePrint>>
    ELSE /\ Len(dialogs) < MaxDialogs
         /\ LET svc == PreviewFound(svcNow, template, config) IN
              /\ activeDialogRef' = svc.activeDialogRef
              /\ dialogs' = svc.dialogs
              /\ last' = Called("preview", config.templateKey, "returned", "promise",
                                NoError, svc.activeDialogRef, FALSE)
         /\ UNCHANGED <<templateRegistry, directTimers, printTimers, windowPrintCalls,
                        invoicePrint>>

preview(config) ==
    LET template == getTemplate(templateRegistry, config.templateKey) IN
    IF template = UndefinedTemplate
    THEN /\ last' = Called("preview", config.templateKey, "threw", Undefined,
                           PreviewNotFoundMessage(config.templateKey, templateRegistry), 0, FALSE)
         /\ UNCHANGED <<templateRegistry, activeDialogRef, dialogs,
                        directTimers, printTimers, windowPrintCalls,
                        invoicePrint>>
    ELSE /\ Len(dialogs) < MaxDialogs
         /\ LET svc == PreviewFound(svcNow, template, config) IN
              /\ activeDialogRef' = svc.activeDialogRef
              /\ dialogs' = svc.dialogs
              /\ last' = Called("preview", config.templateKey, "returned", "promise",
                                NoError, svc.activeDialogRef, FALSE)
         /\ UNCHANGED <<templateRegistry, directTimers, printTimers, windowPrintCalls,
                        invoicePrint>>

printDirectWithoutPrint(config) == preview(config)

printDirect(config) ==
    LET template == getTemplate(templateRegistry, config.templateKey) IN
    IF template = UndefinedTemplate
    THEN /\ last' = Called("printDirect", config.templateKey, "threw", Undefined,
                           PrintDirectNotFoundMessage(config.templateKey, templateRegistry), 0, FALSE)
         /\ UNCHANGED <<templateRegistry, activeDialogRef, dialogs,
                        directTimers, printTimers, windowPrintCalls,
                        invoicePrint>>
    ELSE /\ Len(dialogs) < MaxDialogs
         /\ PrintsInFlight < MaxPrints
         /\ LET svc == PreviewFound(svcNow, template, config) IN
              /\ activeDialogRef' = svc.activeDialogRef
              /\ dialogs' = svc.dialogs
              /\ last' = Called("printDirect", config.templateKey, "returned", "promise",
                                NoError, svc.activeDialogRef, FALSE)
         /\ directTimers' = directTimers + 1
         /\ UNCHANGED <<templateRegistry, printTimers, windowPrintCalls, invoicePrint>>

\* the setTimeout(..., 100) callback of printDirect: this.print()
printDirectTimeout ==
    /\ directTimers > 0
    /\ directTimers' = directTimers - 1
    /\ printTimers' = printTimers + 1
    /\ UNCHANGED <<templateRegistry, activeDialogRef, dialogs, windowPrintCalls, last,
                   invoicePrint>>

\* print() called by application code
print ==
    /\ PrintsInFlight < MaxPrints
    /\ printTimers' = printTimers + 1
    /\ last' = Called("print", Undefined, "returned", "void", NoError, 0, FALSE)
    /\ UNCHANGED <<templateRegistry, activeDialogRef, dialogs, directTimers, windowPrintCalls,
                   invoicePrint>>

printTimeoutUnlessClosed ==
    /\ printTimers > 0
    /\ printTimers' = printTimers - 1
    /\ windowPrintCalls' = IF activeDialogRef = NullRef
                           THEN windowPrintCalls
                           ELSE windowPrintCalls + 1
    /\ UNCHANGED <<templateRegistry, activeDialogRef, dialogs, directTimers, last,
                   invoicePrint>>

\* the setTimeout(..., 250) callback of print: window.print()
printTimeout ==
    /\ printTimers > 0
    /\ printTimers' = printTimers - 1
    /\ windowPrintCalls' = windowPrintCalls + 1
    /\ UNCHANGED <<templateRegistry, activeDialogRef, dialogs, directTimers, last,
                   invoicePrint>>

closePreview ==
    /\ LET svc == ClosePreviewService(svcNow)
       IN /\ activeDialogRef' = svc.activeDialogRef
          /\ dialogs' = svc.dialogs
    /\ last' = Called("closePreview", Undefined, "returned", "void", NoError,
                      activeDialogRef, FALSE)
    /\ UNCHANGED <<templateRegistry, directTimers, printTimers, windowPrintCalls,
                   invoicePrint>>

----------------------------------------------------------------------------
(* PrintPreviewComponent, one per dialog *)

IsOpen(id) == id \in 1..Len(dialogs) /\ ~dialogs[id].closed

\* first change detection of an open dialog: setTimeout(() => this.loadTemplate(), 0)
ngAfterViewInit(id) ==
    /\ IsOpen(id)
    /\ ~dialogs[id].viewInit
    /\ dialogs' = [dialogs EXCEPT ![id].viewInit = TRUE, ![id].loadTimer = TRUE]
    /\ UNCHANGED <<templateRegistry, activeDialogRef, directTimers, printTimers,
                   windowPrintCalls, last, invoicePrint>>

LoadSucceedsUnchecked(d, containerOk, rendered) == rendered

\* the try block of loadTemplate runs to its end; containerOk: templateContainer
\* is available, rendered: createComponent and detectChanges return without throwing
LoadSucceeds(d, containerOk, rendered) ==
    /\ containerOk
    /\ d.previewData.templateComponent # Undefined
    /\ rendered

LoadedWithoutInputs(d) ==
    [d EXCEPT !.loadTimer = FALSE,
              !.instance = [created |-> TRUE,
                            component |-> d.previewData.templateComponent,
                            data |-> Undefined,
                            options |-> EmptyObject],
              !.isLoading = FALSE]

\* the dialog after the try block of loadTemplate
Loaded(d) ==
    [d EXCEPT !.loadTimer = FALSE,
              !.instance = [created |-> TRUE,
                            component |-> d.previewData.templateComponent,
                            data |-> d.previewData.data,
                            options |-> d.previewData.options],
              !.isLoading = FALSE]

LoadFailedStaysLoading(d) ==
    [d EXCEPT !.loadTimer = FALSE,
              !.error = "Failed to load print template. Please try again."]

LoadFailedPropagates(d) ==
    [d EXCEPT !.loadTimer = FALSE]

LoadFailedRejects(d) ==
    [d EXCEPT !.loadTimer = FALSE,
              !.error = "Failed to load print template. Please try again.",
              !.isLoading = FALSE,
              !.promise = "rejected",
              !.value = "Error"]

\* the dialog after the catch block of loadTemplate
LoadFailed(d) ==
    [d EXCEPT !.loadTimer = FALSE,
              !.error = "Failed to load print template. Please try again.",
              !.isLoading = FALSE]

\* the err that the catch block of loadTemplate receives and writes with
\* console.error
CaughtError(d, containerOk, rendered) ==
    IF ~containerOk THEN "ViewContainerRef is not available"
    ELSE IF d.previewData.templateComponent = Undefined
         THEN "Template component is not defined"
         ELSE "thrown by the template component"

\* the deferred loadTemplate()
loadTemplate(id, containerOk, rendered) ==
    /\ id \in 1..Len(dialogs)
    /\ dialogs[id].loadTimer
    /\ dialogs' = [dialogs EXCEPT ![id] =
                      IF LoadSucceeds(dialogs[id], containerOk, rendered)
                      THEN Loaded(dialogs[id])
                      ELSE [LoadFailed(dialogs[id]) EXCEPT
                               !.caught = CaughtError(dialogs[id], containerOk, rendered)]]
    /\ UNCHANGED <<templateRegistry, activeDialogRef, directTimers, printTimers,
                   windowPrintCalls, last, invoicePrint>>

onPrintThenClose(id) ==
    /\ IsOpen(id)
    /\ PrintsInFlight < MaxPrints
    /\ printTimers' = printTimers + 1
    /\ LET svc == DialogRefClose(svcNow, id) IN
         /\ activeDialogRef' = svc.activeDialogRef
         /\ dialogs' = svc.dialogs
    /\ UNCHANGED <<templateRegistry, directTimers, windowPrintCalls, last, invoicePrint>>

\* the print button, or Ctrl/Cmd+P in onKeydown
onPrint(id) ==
    /\ IsOpen(id)
    /\ PrintsInFlight < MaxPrints
    /\ printTimers' = printTimers + 1
    /\ UNCHANGED <<templateRegistry, activeDialogRef, dialogs, directTimers,
                   windowPrintCalls, last, invoicePrint>>

\* the close button, Escape in onKeydown, or the backdrop (disableClose: false)
onClose(id) ==
    /\ IsOpen(id)
    /\ LET svc == DialogRefClose(svcNow, id) IN
         /\ activeDialogRef' = svc.activeDialogRef
         /\ dialogs' = svc.dialogs
    /\ UNCHANGED <<templateRegistry, directTimers, printTimers, windowPrintCalls, last,
                   invoicePrint>>

----------------------------------------------------------------------------
(* BasePrintTemplateComponent and InvoicePrintComponent                     *)
(*                                                                          *)
(* An optional PrintOptions value is a record of hasOptions (false when the *)
(* value itself is undefined) and options.  Amounts of money are integers,  *)
(* in hundredths of the currency unit.                                      *)

NoOptions == [hasOptions |-> FALSE, options |-> EmptyObject]

\* this.optionsSignal()?.field
OptionalChain(sig, field) ==
    IF sig.hasOptions /\ field \in DOMAIN sig.options
    THEN sig.options[field]
    ELSE Undefined

\* value ?? fallback
NullishCoalesce(value, fallback) ==
    IF value = Undefined THEN fallback ELSE value

showHeader(sig) == NullishCoalesce(OptionalChain(sig, "showHeader"), "true")

showFooter(sig) == NullishCoalesce(OptionalChain(sig, "showFooter"), "true")

pageSize(sig) == NullishCoalesce(OptionalChain(sig, "pageSize"), "A4")

orientation(sig) == NullishCoalesce(OptionalChain(sig, "orientation"), "portrait")

isRtl(sig) == NullishCoalesce(OptionalChain(sig, "rtl"), "false")

titleOrPrintPreview(sig) == NullishCoalesce(OptionalChain(sig, "title"), "Print Preview")

title(sig) == NullishCoalesce(OptionalChain(sig, "title"), "Document")

showPageNumbers(sig) == NullishCoalesce(OptionalChain(sig, "showPageNumbers"), "false")

\* if (value): a number that is absent, undefined or 0 is falsy
Truthy(data, field) == field \in DOMAIN data /\ data[field] # 0

\* InvoicePrintComponent.getGrandTotal()
getGrandTotal(data) ==
    LET total == data.total
        discounted == IF Truthy(data, "discount") THEN total - data.discount ELSE total
    IN IF Truthy(data, "shipping") THEN discounted + data.shipping ELSE discounted

\* the PrintOptions values a template is tried with: undefined, and every
\* choice of absent / undefined / a value other than the default per property
OptionFields ==
    {"showHeader", "showFooter", "pageSize", "orientation", "rtl", "title",
     "showPageNumbers"}

OtherValue ==
    [showHeader |-> "false", showFooter |-> "false", pageSize |-> "Letter",
     orientation |-> "landscape", rtl |-> "true", title |-> "Invoice INV-2024-002",
     showPageNumbers |-> "true"]

OptionsOf(choice) ==
    [f \in {g \in OptionFields : choice[g] # "absent"} |->
        IF choice[f] = "value" THEN OtherValue[f] ELSE Undefined]

OptionInputs ==
    {NoOptions} \cup
    {[hasOptions |-> TRUE, options |-> OptionsOf(choice)] :
        choice \in [OptionFields -> {"absent", "undefined", "value"}]}

\* the invoices a template is tried with: the amounts of the application's
\* sample invoice and of the discount example, with discount and shipping
\* absent, 0 or set
InvoiceAmounts ==
    {[subtotal |-> 920000, tax |-> 92000, total |-> 1012000],
     [subtotal |-> 149500, tax |-> 13450, total |-> 150450]}

InvoiceOf(amounts, discount, shipping) ==
    [f \in {"subtotal", "tax", "total"}
            \cup (IF discount < 0 THEN {} ELSE {"discount"})
            \cup (IF shipping < 0 THEN {} ELSE {"shipping"}) |->
        IF f = "discount" THEN discount
        ELSE IF f = "shipping" THEN shipping
        ELSE amounts[f]]

\* a discount or shipping of -1 stands for a property that is absent
Invoices ==
    {InvoiceOf(a, d, sh) : a \in InvoiceAmounts, d \in {-1, 0, 15000}, sh \in {-1, 0, 2500}}

\* a new component whose inputs have been bound, before ngOnInit: bound says
\* whether options is the caller's value or mergeDefaultOptions of it
NewInvoicePrint(given, bound, data) ==
    [given |-> given,
     bound |-> bound,
     options |-> IF bound = "merged"
                 THEN [hasOptions |-> TRUE,
                       options |-> mergeDefaultOptions(given.hasOptions, given.options)]
                 ELSE given,
     optionsSignal |-> NoOptions,
     initialised |-> FALSE,
     data |-> data,
     called |-> FALSE,
     grandTotal |-> 0]

TemplateInit ==
    /\ templateRegistry = <<>>
    /\ activeDialogRef = NullRef
    /\ dialogs = <<>>
    /\ directTimers = 0
    /\ printTimers = 0
    /\ windowPrintCalls = 0
    /\ last = Called("new", Undefined, "returned", "void", NoError, 0, FALSE)
    /\ invoicePrint \in {NewInvoicePrint(o, b, inv) :
                            o \in OptionInputs, b \in {"direct", "merged"}, inv \in Invoices}

\* ngOnInit(): this.optionsSignal.set(this.options)
ngOnInit ==
    /\ ~invoicePrint.initialised
    /\ invoicePrint' = [invoicePrint EXCEPT !.optionsSignal = invoicePrint.options,
                                            !.initialised = TRUE]
    /\ UNCHANGED <<templateRegistry, activeDialogRef, dialogs, directTimers, printTimers,
                   windowPrintCalls, last>>

\* the template reads getGrandTotal()
readGrandTotal ==
    /\ ~invoicePrint.called
    /\ invoicePrint' = [invoicePrint EXCEPT !.called = TRUE,
                                            !.grandTotal = getGrandTotal(invoicePrint.data)]
    /\ UNCHANGED <<templateRegistry, activeDialogRef, dialogs, directTimers, printTimers,
                   windowPrintCalls, last>>

TemplateNext == ngOnInit \/ readGrandTotal

TemplateSpec == TemplateInit /\ [][TemplateNext]_vars

----------------------------------------------------------------------------

Next ==
    \/ \E r \in Registrations : registerTemplate(r.key, r.component, r.description)
    \/ \E k \in Keys : unregisterTemplate(k)
    \/ clearAllTemplates
    \/ \E c \in PrintConfigs : preview(c)
    \/ \E c \in PrintConfigs : printDirect(c)
    \/ printDirectTimeout
    \/ print
    \/ printTimeout
    \/ closePreview
    \/ \E id \in 1..MaxDialogs : ngAfterViewInit(id)
    \/ \E id \in 1..MaxDialogs, containerOk \in BOOLEAN, rendered \in BOOLEAN :
          loadTemplate(id, containerOk, rendered)
    \/ \E id \in 1..MaxDialogs : onPrint(id)
    \/ \E id \in 1..MaxDialogs : onClose(id)

Spec == Init /\ [][Next]_vars

\* The application once registerDefaultTemplates has run at start-up and with
\* no later change of the registry.  A callback passed to setTimeout is run by
\* the event loop once its delay has passed, and Angular calls ngAfterViewInit
\* after the first change detection of a component that is still attached.
AppInit ==
    /\ templateRegistry = registerDefaultTemplates(<<>>)
    /\ activeDialogRef = NullRef
    /\ dialogs = <<>>
    /\ directTimers = 0
    /\ printTimers = 0
    /\ windowPrintCalls = 0
    /\ last = Called("registerTemplate", "table", "returned", "void", NoError, 0, FALSE)
    /\ invoicePrint = NoComponent

AppNext ==
    \/ \E c \in PrintConfigs : preview(c)
    \/ \E c \in PrintConfigs : printDirect(c)
    \/ printDirectTimeout
    \/ print
    \/ printTimeout
    \/ closePreview
    \/ \E id \in 1..MaxDialogs : ngAfterViewInit(id)
    \/ \E id \in 1..MaxDialogs, containerOk \in BOOLEAN, rendered \in BOOLEAN :
          loadTemplate(id, containerOk, rendered)
    \/ \E id \in 1..MaxDialogs : onPrint(id)
    \/ \E id \in 1..MaxDialogs : onClose(id)

FairSpec ==
    /\ AppInit
    /\ [][AppNext]_vars
    /\ \A id \in 1..MaxDialogs :
         /\ WF_vars(ngAfterViewInit(id))
         /\ WF_vars(\E containerOk \in BOOLEAN, rendered \in BOOLEAN :
                        loadTemplate(id, containerOk, rendered))
    /\ WF_vars(printDirectTimeout)
    /\ WF_vars(printTimeout)

----------------------------------------------------------------------------
(* Vocabulary of the properties *)

DialogIds == 1..Len(dialogs)

LookupFailed(op) == last.op = op /\ ~hasTemplate(templateRegistry, last.key)

\* the part of a not-found message after "Available templates: "
AvailablePart(err) == SubSeq(err, 5, Len(err))

ListedKeys(err) == SelectSeq(AvailablePart(err), LAMBDA piece : piece # ", ")

CarriesKeyAndList(err) ==
    /\ Len(err) >= 5
    /\ err[2] = last.key
    /\ templateRegistry # <<>> => ListedKeys(err) = getRegisteredTemplates(templateRegistry)
    /\ templateRegistry = <<>> => AvailablePart(err) = <<"none">>

\* the table "Default Options" of PRINT_SYSTEM_README.md
DocumentedDefaults ==
    [orientation |-> "portrait", pageSize |-> "A4", showHeader |-> "true",
     showFooter |-> "true", showPageNumbers |-> "false", title |-> "Document",
     rtl |-> "false", copies |-> "1"]

CallerOptions(d) == IF d.config.hasOptions THEN d.config.options ELSE EmptyObject

\* computed(() => !this.isLoading() && !this.error())
isReady(id) == ~dialogs[id].isLoading /\ dialogs[id].error = "null"

\* the error view of the preview is shown
HasFailed(id) == dialogs[id].error # "null"

\* a step of preview or printDirect that finds its template
Opens(config) ==
    /\ preview(config) \/ printDirect(config)
    /\ hasTemplate(templateRegistry, config.templateKey)

\* the values a template shows for the options held by a signal
EffectiveOptions(sig) ==
    [showHeader |-> showHeader(sig), showFooter |-> showFooter(sig),
     pageSize |-> pageSize(sig), orientation |-> orientation(sig),
     rtl |-> isRtl(sig), title |-> title(sig),
     showPageNumbers |-> showPageNumbers(sig)]

OpenDialogs == {id \in DialogIds : ~dialogs[id].closed}

LatestOpenDialog ==
    IF OpenDialogs = {} THEN NullRef
    ELSE CHOOSE id \in OpenDialogs : \A other \in OpenDialogs : other <= id

----------------------------------------------------------------------------
C2_PrintDirectMissingKeySameError ==
    LookupFailed("printDirect") =>
        /\ last.outcome # "returned"
        /\ CarriesKeyAndList(last.err)

(* C3: the options handed to the render host are the shallow merge of the   *)
(* caller's options over the documented defaults: a key the caller gave     *)
(* has the caller's value, any other key has its default, headerData and    *)
(* footerData are passed through as given, and without options the result   *)
(* is the default table.                                                    *)
C3_OptionsAreShallowMerge ==
    \A id \in DialogIds :
        LET o == CallerOptions(dialogs[id])
            m == dialogs[id].previewData.options
        IN  /\ DOMAIN m = (DOMAIN DocumentedDefaults) \cup (DOMAIN o)
            /\ \A k \in DOMAIN o : m[k] = o[k]
            /\ \A k \in (DOMAIN DocumentedDefaults) \ (DOMAIN o) : m[k] = DocumentedDefaults[k]
            /\ ~dialogs[id].config.hasOptions => m = DocumentedDefaults

C3_Witness ==
    \E i, j \in DialogIds :
        /\ ~dialogs[i].config.hasOptions
        /\ dialogs[i].previewData.options["pageSize"] = "A4"
        /\ "headerData" \in DOMAIN dialogs[j].config.options
        /\ dialogs[j].previewData.options["pageSize"] = "Legal"
        /\ dialogs[j].previewData.options["orientation"] = "portrait"

(* C4: whatever the caller's options contain, the options the template      *)
(* receives have a defined value for each of orientation, pageSize,         *)
(* showHeader, showFooter, showPageNumbers, title, rtl and copies.          *)
C4_MergedOptionsFullyDefined ==
    \A id \in DialogIds :
        LET received == IF dialogs[id].instance.created
                        THEN dialogs[id].instance.options
                        ELSE dialogs[id].previewData.options
        IN  \A k \in {"orientation", "pageSize", "showHeader", "showFooter",
                      "showPageNumbers", "title", "rtl", "copies"} :
                k \in DOMAIN received /\ received[k] # Undefined

(* C5: a key is listed at most once by getRegisteredTemplates; registering  *)
(* a key that is already registered raises no error and replaces the entry, *)
(* so getTemplate returns the component and description registered last.    *)
C5_KeysUnique ==
    \A i, j \in 1..Len(templateRegistry) :
        getRegisteredTemplates(templateRegistry)[i] =
            getRegisteredTemplates(templateRegistry)[j] => i = j

C6_UnregisterRemovesOnlyKey ==
    [][\A k \in Keys :
          unregisterTemplate(k) =>
              /\ (last'.ret = "true") <=> hasTemplate(templateRegistry, k)
              /\ last'.ret \in {"true", "false"}
              /\ ~hasTemplate(templateRegistry', k)
              /\ \A other \in Keys \ {k} :
                    getTemplate(templateRegistry', other) = getTemplate(templateRegistry, other)
              /\ getAllTemplates(templateRegistry') =
                    SelectSeq(getAllTemplates(templateRegistry), LAMBDA t : t.key # k)
      ]_vars

C6_Witness ==
    /\ last.op = "unregisterTemplate"
    /\ last.ret = "true"
    /\ Len(templateRegistry) = 1

(* C7: for every key, hasTemplate, getTemplate and getRegisteredTemplates   *)
(* agree on whether it is registered; getTemplate of a missing key returns  *)
(* undefined; getStats().count is the number of keys in getStats().templates;*)
(* the list is empty right after clearAllTemplates.                         *)
C7_RegistryViewsAgree ==
    /\ \A k \in Keys :
          /\ hasTemplate(templateRegistry, k) <=>
                getTemplate(templateRegistry, k) # UndefinedTemplate
          /\ hasTemplate(templateRegistry, k) <=>
                \E i \in 1..Len(getRegisteredTemplates(templateRegistry)) :
                    getRegisteredTemplates(templateRegistry)[i] = k
          /\ hasTemplate(templateRegistry, k) =>
                getTemplate(templateRegistry, k).key = k
    /\ getStats(templateRegistry).count = Len(getStats(templateRegistry).templates)
    /\ getStats(templateRegistry).count =
          Cardinality({getStats(templateRegistry).templates[i] :
                          i \in 1..Len(getStats(templateRegistry).templates)})
    /\ last.op = "clearAllTemplates" =>
          /\ getRegisteredTemplates(templateRegistry) = <<>>
          /\ getStats(templateRegistry).count = 0

C7_Witness ==
    /\ last.op = "clearAllTemplates"
    /\ dialogs # <<>>

(* C8: activeDialogRef is empty or refers to the most recently opened       *)
(* dialog that has not been closed; the closing of an older dialog never    *)
(* clears or replaces the reference to a newer one; closePreview closes the *)
(* most recently opened dialog.                                             *)
C8_ActiveRefIsLatestOpenDialog ==
    /\ activeDialogRef = LatestOpenDialog
    /\ (last.op = "closePreview" /\ dialogs # <<>>) => dialogs[Len(dialogs)].closed

C8_Witness ==
    /\ Len(dialogs) = 2
    /\ dialogs[1].closed
    /\ activeDialogRef = 2

(* C9: at most one dialog is open at any time: every dialog other than the  *)
(* one activeDialogRef refers to has had close() issued on it.              *)
C9_AtMostOneOpenDialog ==
    /\ Cardinality(OpenDialogs) <= 1
    /\ \A id \in DialogIds : id # activeDialogRef => dialogs[id].closeCalls >= 1

C9_Witness ==
    /\ Len(dialogs) = 2
    /\ dialogs[1].closeCalls = 1
    /\ ~dialogs[2].closed
    /\ last.op \in {"preview", "printDirect"}

(* C10: the promise of a preview is not settled while its dialog is open;   *)
(* it resolves only once the dialog has closed, and with no value.          *)
C10_PromisePendingWhileOpen ==
    \A id \in DialogIds :
        /\ ~dialogs[id].closed => dialogs[id].promise = "pending"
        /\ dialogs[id].promise # "pending" =>
              /\ dialogs[id].closed
              /\ dialogs[id].promise = "resolved"
              /\ dialogs[id].value = Undefined

C10_Witness ==
    \E i, j \in DialogIds :
        /\ dialogs[i].promise = "resolved"
        /\ dialogs[j].promise = "pending"
        /\ dialogs[j].instance.created

----------------------------------------------------------------------------
----------------------------------------------------------------------------
(* C12: a dialog that is closed before its template has been loaded - by    *)
(* the user, by closePreview() or by a later preview/printDirect - has its  *)
(* promise resolved with undefined, as a dialog closed in any other state   *)
(* has; no close rejects the promise.                                       *)
C12_EarlyCloseResolves ==
    [][\A id \in DialogIds :
          (~dialogs[id].closed /\ dialogs'[id].closed) =>
              /\ dialogs'[id].promise = "resolved"
              /\ dialogs'[id].value = Undefined]_vars

\* a dialog was replaced by a later call before its view was initialised, and
\* its promise is resolved
C12_Witness ==
    \E id \in DialogIds :
        /\ dialogs[id].closed
        /\ ~dialogs[id].viewInit
        /\ dialogs[id].isLoading
        /\ dialogs[id].promise = "resolved"
        /\ activeDialogRef \notin {NullRef, id}

----------------------------------------------------------------------------
----------------------------------------------------------------------------
(* C14: closePreview() with an active dialog issues one close on it and     *)
(* clears activeDialogRef; with no active dialog (a second call included)   *)
(* it returns without throwing, issues no close and changes nothing.        *)
C14_ClosePreviewIdempotent ==
    [][closePreview =>
          /\ last'.outcome = "returned"
          /\ activeDialogRef' = NullRef
          /\ UNCHANGED <<templateRegistry, directTimers, printTimers, windowPrintCalls>>
          /\ IF activeDialogRef # NullRef
             THEN /\ dialogs'[activeDialogRef].closed
                  /\ dialogs'[activeDialogRef].closeCalls =
                         dialogs[activeDialogRef].closeCalls + 1
                  /\ \A id \in DialogIds \ {activeDialogRef} : dialogs'[id] = dialogs[id]
             ELSE dialogs' = dialogs]_vars

\* closePreview() has just been called with no active dialog, after a dialog
\* was closed
C14_Witness ==
    /\ last.op = "closePreview"
    /\ last.dialog = NullRef
    /\ activeDialogRef = NullRef
    /\ \E id \in DialogIds : dialogs[id].closed /\ dialogs[id].closeCalls = 1

----------------------------------------------------------------------------
(* C15: print() called while no dialog is active is a no-op: it schedules   *)
(* no window.print() and calls none.                                        *)
C15_PrintWithoutSessionIsNoOp ==
    [][(print /\ activeDialogRef = NullRef) =>
          UNCHANGED <<printTimers, windowPrintCalls>>]_vars

----------------------------------------------------------------------------
----------------------------------------------------------------------------
(* C17: in every state of a dialog that is not closed (view not yet         *)
(* initialised, loading, ready, failed) the close of the preview can be     *)
(* taken, and taking it closes the dialog, leaves activeDialogRef not       *)
(* referring to it and settles the promise of the call that opened it.      *)
C17_CloseAlwaysAvailable ==
    /\ [](\A id \in 1..MaxDialogs : IsOpen(id) => ENABLED onClose(id))
    /\ [][\A id \in DialogIds :
            onClose(id) =>
              /\ dialogs'[id].closed
              /\ activeDialogRef' # id
              /\ dialogs'[id].promise # "pending"]_vars

\* a dialog whose load failed is closed, nothing refers to it and its promise is
\* settled, with no closePreview() and no later preview involved
C17_Witness ==
    /\ Len(dialogs) = 1
    /\ dialogs[1].closed
    /\ HasFailed(1)
    /\ activeDialogRef = NullRef
    /\ dialogs[1].promise = "resolved"
    /\ last.op \in {"preview", "printDirect"}

----------------------------------------------------------------------------
(* C18: registerTemplate, unregisterTemplate and clearAllTemplates leave    *)
(* activeDialogRef and every dialog as they are; the component a dialog was *)
(* opened with never changes, and it is the component that loadTemplate     *)
(* instantiates, whatever has happened to its key in the registry.          *)
C18_RegistryLeavesDialogsAlone ==
    /\ [][(\/ \E r \in Registrations : registerTemplate(r.key, r.component, r.description)
           \/ \E k \in Keys : unregisterTemplate(k)
           \/ clearAllTemplates) =>
            UNCHANGED <<activeDialogRef, dialogs>>]_vars
    /\ [][\A id \in DialogIds :
            /\ dialogs'[id].previewData = dialogs[id].previewData
            /\ dialogs'[id].instance.created =>
                 dialogs'[id].instance.component =
                     dialogs[id].previewData.templateComponent]_vars

\* after a registry operation, an open dialog shows a component that its key no
\* longer resolves to
C18_Witness ==
    /\ last.op \in {"registerTemplate", "unregisterTemplate", "clearAllTemplates"}
    /\ \E id \in DialogIds :
         /\ IsOpen(id)
         /\ activeDialogRef = id
         /\ dialogs[id].instance.created
         /\ dialogs[id].instance.component # Undefined
         /\ getTemplate(templateRegistry, dialogs[id].config.templateKey).component
                # dialogs[id].instance.component

----------------------------------------------------------------------------
(* C19: a preview or printDirect that finds its template issues close       *)
(* exactly once on the dialog that is active when it is called and on no    *)
(* other dialog, and none when no dialog is active; the close comes before  *)
(* the new dialog is opened, so the new dialog is not closed by it and is   *)
(* the active one afterwards.                                               *)
C19_ReplacedDialogClosedOnceFirst ==
    [][\A c \in PrintConfigs :
          Opens(c) =>
            LET new == Len(dialogs) + 1 IN
              /\ \A id \in DialogIds :
                   dialogs'[id].closeCalls =
                       IF id = activeDialogRef
                       THEN dialogs[id].closeCalls + 1
                       ELSE dialogs[id].closeCalls
              /\ activeDialogRef # NullRef => dialogs'[activeDialogRef].closed
              /\ Len(dialogs') = new
              /\ dialogs'[new].closeCalls = 0
              /\ ~dialogs'[new].closed
              /\ activeDialogRef' = new]_vars

\* a second call has replaced an open dialog: the first has had one close, the
\* second none
C19_Witness ==
    /\ Len(dialogs) = 2
    /\ last.op \in {"preview", "printDirect"}
    /\ last.dialog = 2
    /\ dialogs[1].closed
    /\ dialogs[1].closeCalls = 1
    /\ dialogs[2].closeCalls = 0
    /\ activeDialogRef = 2

----------------------------------------------------------------------------
(* C20: loadTemplate makes a preview ready only if its container was        *)
(* available and its component was defined when it ran; if either is        *)
(* missing the preview shows its error instead.  A preview becomes ready by *)
(* loadTemplate only, one that has failed stays failed and never becomes    *)
(* ready, and no preview is both ready and failed.                          *)
C20_ReadyOnlyWithContainerAndComponent ==
    /\ [][\A id \in DialogIds, containerOk \in BOOLEAN, rendered \in BOOLEAN :
            loadTemplate(id, containerOk, rendered) =>
              /\ isReady(id)' =>
                   containerOk /\ dialogs[id].previewData.templateComponent # Undefined
              /\ (~containerOk \/ dialogs[id].previewData.templateComponent = Undefined) =>
                   HasFailed(id)' /\ ~isReady(id)']_vars
    /\ [][\A id \in DialogIds :
            /\ HasFailed(id) => HasFailed(id)' /\ ~isReady(id)'
            /\ (~isReady(id) /\ isReady(id)') =>
                 \E containerOk \in BOOLEAN, rendered \in BOOLEAN :
                     loadTemplate(id, containerOk, rendered)]_vars
    /\ [](\A id \in DialogIds : ~(isReady(id) /\ HasFailed(id)))

\* one preview has failed because its component is undefined, another is ready
C20_Witness ==
    \E id \in DialogIds, other \in DialogIds :
        /\ dialogs[id].previewData.templateComponent = Undefined
        /\ HasFailed(id)
        /\ ~isReady(id)
        /\ isReady(other)
        /\ dialogs[other].instance.created

----------------------------------------------------------------------------
(* C21: no preview stays in the loading state.  The step of loadTemplate    *)
(* always ends with isLoading false, whether its try block completes or     *)
(* throws; every dialog that is opened is eventually closed or no longer    *)
(* loading, and every scheduled loadTemplate eventually runs.               *)
C21_NoSessionStuckInLoading ==
    /\ [][\A id \in DialogIds, containerOk \in BOOLEAN, rendered \in BOOLEAN :
            loadTemplate(id, containerOk, rendered) =>
              /\ ~dialogs'[id].isLoading
              /\ isReady(id)' \/ HasFailed(id)']_vars
    /\ [](\A id \in DialogIds :
            (dialogs[id].viewInit /\ ~dialogs[id].loadTimer) => ~dialogs[id].isLoading)
    /\ \A id \in 1..MaxDialogs :
         (id \in DialogIds) ~>
             (id \in DialogIds /\ (dialogs[id].closed \/ ~dialogs[id].isLoading))
    /\ \A id \in 1..MaxDialogs :
         (id \in DialogIds /\ dialogs[id].loadTimer) ~>
             (id \in DialogIds /\ ~dialogs[id].isLoading)

\* one open preview has left loading because its template threw, another
\* because it was rendered
C21_Witness ==
    \E id \in DialogIds, other \in DialogIds :
        /\ dialogs[id].caught = "thrown by the template component"
        /\ ~dialogs[id].isLoading
        /\ HasFailed(id)
        /\ ~dialogs[other].isLoading
        /\ isReady(other)

----------------------------------------------------------------------------
(* C22: closed is terminal: once a dialog is closed nothing about it or its *)
(* preview changes again - no component is created for it and it becomes    *)
(* neither ready nor failed.                                                *)
C22_ClosedIsTerminal ==
    [][\A id \in DialogIds : dialogs[id].closed => dialogs'[id] = dialogs[id]]_vars

----------------------------------------------------------------------------
(* C23: a print request - PrintService.print() or the print action of a     *)
(* preview - and the timers it starts leave the registry, activeDialogRef   *)
(* and every dialog as they are: no dialog is closed, no preview changes    *)
(* state and no promise is settled.                                         *)
C23_PrintChangesNoSession ==
    /\ [][(print \/ \E id \in DialogIds : onPrint(id)) =>
            UNCHANGED <<templateRegistry, activeDialogRef, dialogs>>]_vars
    /\ [][(directTimers' = directTimers /\
           (printTimers' # printTimers \/ windowPrintCalls' # windowPrintCalls)) =>
            UNCHANGED <<templateRegistry, activeDialogRef, dialogs>>]_vars

\* print() was called with a ready preview open and window.print() has run: the
\* preview is still ready and active, and its promise is pending
C23_Witness ==
    /\ last.op = "print"
    /\ windowPrintCalls = 1
    /\ activeDialogRef # NullRef
    /\ IsOpen(activeDialogRef)
    /\ isReady(activeDialogRef)
    /\ dialogs[activeDialogRef].promise = "pending"

----------------------------------------------------------------------------
(* C24: the print action and Ctrl/Cmd+P of a preview request a print only   *)
(* when the preview is ready, never while it is loading or failed.          *)
C24_PrintOnlyFromReady ==
    [][\A id \in DialogIds : onPrint(id) => isReady(id)]_vars

----------------------------------------------------------------------------
----------------------------------------------------------------------------
(* C26: a preview that is ready has a template component instance that was *)
(* given the data of the call, unchanged, and the merged options of the     *)
(* call; the preview is not ready before both are set, and once the         *)
(* instance exists its component, data and options never change.            *)
C26_InstanceHasDataAndOptionsWhenReady ==
    /\ [](\A id \in DialogIds :
            isReady(id) =>
              /\ dialogs[id].instance.created
              /\ dialogs[id].instance.component = dialogs[id].previewData.templateComponent
              /\ dialogs[id].instance.data = dialogs[id].config.data
              /\ dialogs[id].instance.options =
                     mergeDefaultOptions(dialogs[id].config.hasOptions,
                                         dialogs[id].config.options))
    /\ [][\A id \in DialogIds :
            dialogs[id].instance.created =>
                dialogs'[id].instance = dialogs[id].instance]_vars

\* a ready preview of a call that passed options: its instance holds the data of
\* the call, the caller's pageSize and the default orientation
C26_Witness ==
    \E id \in DialogIds :
        /\ isReady(id)
        /\ dialogs[id].config.hasOptions
        /\ dialogs[id].instance.data = "tableData"
        /\ dialogs[id].instance.options.pageSize = "Legal"
        /\ dialogs[id].instance.options.orientation = "portrait"

----------------------------------------------------------------------------
(* C27: a preview or printDirect whose template is not registered changes   *)
(* nothing but its own outcome: the registry, activeDialogRef, every dialog *)
(* and every timer stay as they are, and no window.print() is called.       *)
C27_FailedLookupChangesNothing ==
    [][\A c \in PrintConfigs :
          (/\ preview(c) \/ printDirect(c)
           /\ ~hasTemplate(templateRegistry, c.templateKey)) =>
            /\ last'.outcome = "threw"
            /\ UNCHANGED <<templateRegistry, activeDialogRef, dialogs,
                           directTimers, printTimers, windowPrintCalls>>]_vars

\* the latest call threw for a missing template while a preview is open: the
\* preview is still open and active and its promise is pending
C27_Witness ==
    /\ last.op \in {"preview", "printDirect"}
    /\ last.outcome = "threw"
    /\ activeDialogRef # NullRef
    /\ IsOpen(activeDialogRef)
    /\ dialogs[activeDialogRef].promise = "pending"

----------------------------------------------------------------------------
(* C28: every print request - print(), the print action of a preview, or    *)
(* the timer of printDirect - starts one timer, every timer that ends calls *)
(* window.print() once (for printDirect, through one print()), no timer is  *)
(* dropped when a dialog is closed or replaced, and every request made is   *)
(* eventually followed by its window.print().                               *)
C28_EveryPrintRequestPrintsOnce ==
    /\ [][(print \/ \E id \in DialogIds : onPrint(id)) =>
            /\ printTimers' = printTimers + 1
            /\ UNCHANGED <<directTimers, windowPrintCalls>>]_vars
    /\ [][directTimers' < directTimers =>
            /\ directTimers' = directTimers - 1
            /\ printTimers' = printTimers + 1
            /\ windowPrintCalls' = windowPrintCalls]_vars
    /\ [][printTimers' < printTimers =>
            /\ printTimers' = printTimers - 1
            /\ windowPrintCalls' = windowPrintCalls + 1
            /\ directTimers' = directTimers]_vars
    /\ [][windowPrintCalls' # windowPrintCalls =>
            /\ windowPrintCalls' = windowPrintCalls + 1
            /\ printTimers' = printTimers - 1]_vars
    /\ [][(\E id \in DialogIds : ~dialogs[id].closed /\ dialogs'[id].closed) =>
            /\ printTimers' = printTimers
            /\ directTimers' >= directTimers
            /\ windowPrintCalls' = windowPrintCalls]_vars
    /\ \A total \in 1..MaxPrints :
         (PrintsInFlight = total) ~> (windowPrintCalls = total)

\* printDirect was the latest call, its dialog has been closed and its
\* window.print() has run
C28_Witness ==
    /\ last.op = "printDirect"
    /\ last.outcome = "returned"
    /\ dialogs[last.dialog].closed
    /\ printTimers = 0
    /\ directTimers = 0
    /\ windowPrintCalls = 1

----------------------------------------------------------------------------
(* C29: the fallbacks of BasePrintTemplateComponent agree with the defaults *)
(* of mergeDefaultOptions.  For every PrintOptions value o, a template      *)
(* bound to o shows, for showHeader, showFooter, pageSize, orientation,     *)
(* rtl, title and showPageNumbers, the value of the merged options of o     *)
(* wherever that value is defined; and a template bound to the merged       *)
(* options of o shows the same values as one bound to o.                    *)
C29_FallbacksAgreeWithDefaults ==
    invoicePrint.initialised =>
        LET o == invoicePrint.given
            merged == mergeDefaultOptions(o.hasOptions, o.options)
            shown == EffectiveOptions(invoicePrint.optionsSignal)
        IN /\ invoicePrint.bound = "direct" =>
                \A f \in OptionFields : merged[f] # Undefined => shown[f] = merged[f]
           /\ invoicePrint.bound = "merged" => shown = EffectiveOptions(o)

\* a template bound to merged options whose caller set pageSize, passed title
\* as undefined and left showHeader out
C29_Witness ==
    /\ invoicePrint.initialised
    /\ invoicePrint.bound = "merged"
    /\ invoicePrint.given.hasOptions
    /\ DOMAIN invoicePrint.given.options = {"pageSize", "title"}
    /\ invoicePrint.given.options.title = Undefined
    /\ pageSize(invoicePrint.optionsSignal) = "Letter"
    /\ title(invoicePrint.optionsSignal) = "Document"
    /\ showHeader(invoicePrint.optionsSignal) = "true"

----------------------------------------------------------------------------
(* C30: getGrandTotal() returns subtotal + tax - discount + shipping, an    *)
(* absent discount or shipping counting as 0.                               *)
C30_GrandTotalFromSubtotal ==
    invoicePrint.called =>
        invoicePrint.grandTotal =
            invoicePrint.data.subtotal + invoicePrint.data.tax
            - (IF "discount" \in DOMAIN invoicePrint.data
               THEN invoicePrint.data.discount ELSE 0)
            + (IF "shipping" \in DOMAIN invoicePrint.data
               THEN invoicePrint.data.shipping ELSE 0)

====
